---- MODULE Spec2Model ----
(***************************************************************************)
(* Model of expotion_core: the PluginLoader registry and the lifecycle of  *)
(* ExpotionPlugin instances (loader.py, plugin.py).                        *)
(*                                                                         *)
(* The loader is single-threaded and every public operation runs to        *)
(* completion.  load_all is modelled loop iteration by loop iteration      *)
(* (pc is its position); every other operation is enabled only while no    *)
(* load_all is in progress, so nothing interleaves with it.                *)
(***************************************************************************)
EXTENDS Integers, Sequences, FiniteSets, TLC

VARIABLES
    app,             \* PluginLoader._app: None or the Flask application
    plugins,         \* PluginLoader._plugins: dict name -> instance, in insertion order
    plugins_dir,     \* PluginLoader._plugins_dir
    disabled_plugins,\* PluginLoader._disabled_plugins (only membership is used)
    inst,            \* the ExpotionPlugin instances that were ever registered, by identity
    pc,              \* position inside load_all, "idle" when no call is in progress
    sorted_plugins,  \* local sorted_plugins of _init_all_plugins
    idx,             \* number of elements of sorted_plugins the init loop has handled
    failed,          \* instances whose init_app raised in the current pass
    last             \* what the most recent step did and returned

vars == <<app, plugins, plugins_dir, disabled_plugins, inst, pc,
          sorted_plugins, idx, failed, last>>

----------------------------------------------------------------------------
(* Bounds of the model *)

\* instances that can be inserted in the registry over a run
MaxInst == 2

----------------------------------------------------------------------------
(* Values *)

None == "None"
TheApp == "app"
TheDir == "plugins"
NoObj == 0

\* Exception messages a hook can raise with
Messages == {"boom"}

\* A plugin class is an ExpotionPlugin subclass; what the loader reads of it are
\* its class attributes name and dependencies.
PluginClass(name, deps) == [name |-> name, deps |-> deps]

ClassName(cls) == cls.name
ClassDeps(cls) == cls.deps

\* The classes the discovery sources can produce.  PluginE carries the empty
\* name, depends on itself and closes a cycle with PluginC; "Z" is the name of
\* no plugin.
PluginA == PluginClass("A", <<>>)
PluginB == PluginClass("B", <<"A", "Z">>)
PluginC == PluginClass("C", <<"B", "">>)
PluginE == PluginClass("", <<"", "C">>)

PluginClasses == {PluginA, PluginB, PluginC, PluginE}

\* What get_menu_items of an instance of the class returns when it returns: the
\* base class gives [], a subclass its own list; two classes share an item.
ClassMenu(cls) ==
    CASE ClassName(cls) = "A" -> <<"home">>
      [] ClassName(cls) = "B" -> <<"home", "b">>
      [] ClassName(cls) = "C" -> <<>>
      [] OTHER -> <<"e">>

Names == {ClassName(c) : c \in PluginClasses}

\* Values of app.config['DISABLED_PLUGINS'] an application can carry
DisableLists == {{}, {"A"}}

----------------------------------------------------------------------------
(* ExpotionPlugin instances *)

\* Bug variant: the instance is handed the loader's application when it is built
NewPluginWithApp(cls) == [cls |-> cls, app |-> app, enabled |-> TRUE]

\* ExpotionPlugin.__init__: _app is None, _enabled is True
NewPlugin(cls) == [cls |-> cls, app |-> None, enabled |-> TRUE]

NameOf(id) == ClassName(inst[id].cls)
DepsOf(id) == ClassDeps(inst[id].cls)

\* ExpotionPlugin.healthcheck
OwnHealth(id) == <<"ok", NameOf(id)>>

----------------------------------------------------------------------------
(* The dict self._plugins: a sequence of [key, obj] in insertion order *)

DictKeys(d) == {d[i].key : i \in DOMAIN d}

DictGet(d, k) ==
    IF k \in DictKeys(d)
    THEN d[CHOOSE i \in DOMAIN d : d[i].key = k].obj
    ELSE NoObj

\* d[k] = v: an existing key keeps its position, a new key goes last
DictSet(d, k, v) ==
    IF k \in DictKeys(d)
    THEN [i \in DOMAIN d |-> IF d[i].key = k THEN [key |-> k, obj |-> v] ELSE d[i]]
    ELSE Append(d, [key |-> k, obj |-> v])

\* del d[k]
DictDel(d, k) == SelectSeq(d, LAMBDA e : e.key # k)

DictValues(d) == [i \in DOMAIN d |-> d[i].obj]

Range(s) == {s[i] : i \in DOMAIN s}

----------------------------------------------------------------------------
(* PluginLoader._sort_by_dependencies *)

RECURSIVE visit(_, _), visitDeps(_, _, _), visitAll(_, _)

\* Bug variant: the dependent is appended before its dependencies are visited
visitPreOrder(name, st) ==
    IF name \in st.visited
    THEN st
    ELSE LET st1 == [st EXCEPT !.visited = @ \cup {name}]
             plugin == DictGet(plugins, name)
         IN  IF plugin # NoObj
             THEN visitDeps(DepsOf(plugin), 1, [st1 EXCEPT !.result = Append(@, plugin)])
             ELSE st1

\* Bug variant: result.append(plugin) sits inside the loop over the dependencies,
\* so it runs once per dependency that is present
visitAppendInLoop(name, st) ==
    IF name \in st.visited
    THEN st
    ELSE LET st1 == [st EXCEPT !.visited = @ \cup {name}]
             plugin == DictGet(plugins, name)
             present == SelectSeq(DepsOf(plugin), LAMBDA d : d \in DictKeys(plugins))
             st2 == visitDeps(DepsOf(plugin), 1, st1)
         IN  IF plugin # NoObj
             THEN [st2 EXCEPT !.result = @ \o [i \in 1..Len(present) |-> plugin]]
             ELSE st1

\* the nested function visit(name); st is [result, visited]
visit(name, st) ==
    IF name \in st.visited
    THEN st
    ELSE LET st1 == [st EXCEPT !.visited = @ \cup {name}]
             plugin == DictGet(plugins, name)
         IN  IF plugin # NoObj
             THEN LET st2 == visitDeps(DepsOf(plugin), 1, st1)
                  IN  [st2 EXCEPT !.result = Append(@, plugin)]
             ELSE st1

\* for dep in plugin.dependencies: if dep in self._plugins: visit(dep)
visitDeps(deps, i, st) ==
    IF i > Len(deps)
    THEN st
    ELSE visitDeps(deps, i + 1,
                   IF deps[i] \in DictKeys(plugins) THEN visit(deps[i], st) ELSE st)

\* for name in self._plugins: visit(name)
visitAll(i, st) ==
    IF i > Len(plugins)
    THEN st
    ELSE visitAll(i + 1, visit(plugins[i].key, st))

SortByDependencies == visitAll(1, [result |-> <<>>, visited |-> {}]).result

----------------------------------------------------------------------------
(* Queries *)

\* PluginLoader.get_plugin
GetPlugin(name) == DictGet(plugins, name)

\* Bug variant: the enabled flag is not looked at
GetAllPluginsUnfiltered == DictValues(plugins)

\* PluginLoader.get_all_plugins
GetAllPlugins == SelectSeq(DictValues(plugins), LAMBDA p : inst[p].enabled)

\* the loop of get_all_menu_items over the list active; raising holds the names of
\* the plugins whose get_menu_items raises, and nothing catches it
RECURSIVE menuLoop(_, _, _, _)
menuLoop(i, items, active, raising) ==
    IF i > Len(active)
    THEN [ret |-> "list", items |-> items]
    ELSE IF NameOf(active[i]) \in raising
         THEN [ret |-> "raised", items |-> <<>>]
         ELSE menuLoop(i + 1, items \o ClassMenu(inst[active[i]].cls), active, raising)

\* Bug variant: the loop runs over self._plugins.values()
GetAllMenuItemsOfAll(raising) == menuLoop(1, <<>>, DictValues(plugins), raising)

\* PluginLoader.get_all_menu_items: the list it returns, or that it raised
GetAllMenuItems(raising) == menuLoop(1, <<>>, GetAllPlugins, raising)

----------------------------------------------------------------------------
(* What a step did: the hook calls it made and what it returned *)

Event(op) ==
    [op |-> op, source |-> None, name |-> None, outcome |-> None,
     on_load |-> FALSE, again |-> FALSE, ret |-> None, called |-> {}, failed |-> {},
     raised |-> {}, results |-> {}, list |-> <<>>, items |-> <<>>]

----------------------------------------------------------------------------
(* Construction and init_app of the loader *)

Init ==
    /\ app = None
    /\ plugins = <<>>
    /\ plugins_dir \in {None, TheDir}
    /\ disabled_plugins = {}
    /\ inst = <<>>
    /\ pc = "idle"
    /\ sorted_plugins = <<>>
    /\ idx = 0
    /\ failed = {}
    /\ last = Event("init")

\* Bug variant: init_app drops the registered plugins the new disable-list names
InitAppPurging(disabledCfg, dirCfg) ==
    /\ pc = "idle"
    /\ app' = TheApp
    /\ disabled_plugins' = disabledCfg
    /\ plugins_dir' = IF plugins_dir = None THEN dirCfg ELSE plugins_dir
    /\ plugins' = SelectSeq(plugins, LAMBDA e : e.key \notin disabledCfg)
    /\ last' = Event("init_app")
    /\ UNCHANGED <<inst, pc, sorted_plugins, idx, failed>>

\* PluginLoader.init_app(app), app.config holding DISABLED_PLUGINS and PLUGINS_DIR
InitApp(disabledCfg, dirCfg) ==
    /\ pc = "idle"
    /\ app' = TheApp
    /\ disabled_plugins' = disabledCfg
    /\ plugins_dir' = IF plugins_dir = None THEN dirCfg ELSE plugins_dir
    /\ last' = Event("init_app")
    /\ UNCHANGED <<plugins, inst, pc, sorted_plugins, idx, failed>>

----------------------------------------------------------------------------
(* PluginLoader._register_plugin_class *)

\* Bug variant: the disable-list is not consulted
IsDisabledNever(name) == FALSE

\* plugin.name in self._disabled_plugins
IsDisabled(name) == name \in disabled_plugins

\* Bug variant: no duplicate check, a later candidate replaces the registered one
IsLoadedNever(name) == FALSE

\* Bug variant: a name is taken once an instance of it has been registered,
\* unloaded or not
IsLoadedEver(name) == \E p \in DOMAIN inst : NameOf(p) = name

\* plugin.name in self._plugins
IsLoaded(name) == name \in DictKeys(plugins)

\* behaviour is what the candidate's own code does: "ok", "ctor_raises" or
\* "on_load_raises"
RegisterOutcome(cls, behaviour) ==
    IF behaviour = "ctor_raises" THEN "ctor_error"
    ELSE IF IsDisabled(ClassName(cls)) THEN "disabled"
    ELSE IF IsLoaded(ClassName(cls)) THEN "duplicate"
    ELSE IF behaviour = "on_load_raises" THEN "on_load_error"
    ELSE "registered"

Behaviours == {"ok", "ctor_raises", "on_load_raises"}

\* Bug variant: the instance is stored before on_load is called
InsertsBeforeOnLoad(outcome) == outcome \in {"registered", "on_load_error"}

\* self._plugins[plugin.name] = plugin is reached only when on_load has returned
Inserts(outcome) == outcome = "registered"

RegisterPluginClass(cls, source, behaviour) ==
    LET outcome == RegisterOutcome(cls, behaviour)
        name == ClassName(cls)
    IN  /\ Inserts(outcome) => Len(inst) < MaxInst
        /\ IF Inserts(outcome)
           THEN /\ inst' = Append(inst, NewPlugin(cls))
                /\ plugins' = DictSet(plugins, name, Len(inst) + 1)
           ELSE UNCHANGED <<inst, plugins>>
        /\ last' = [Event("register") EXCEPT
                      !.source = source, !.name = name,
                      !.outcome = outcome,
                      !.on_load = outcome \in {"registered", "on_load_error"}]

----------------------------------------------------------------------------
(* PluginLoader.load_all *)

LoadAllBegin ==
    /\ pc = "idle"
    /\ pc' = "entry_points"
    /\ last' = Event("load_all_begin")
    /\ UNCHANGED <<app, plugins, plugins_dir, disabled_plugins, inst,
                   sorted_plugins, idx, failed>>

\* Bug variant: a declaration that fails to resolve ends _load_from_entry_points
EntryPointLoadAborts ==
    /\ pc = "entry_points"
    /\ pc' = IF plugins_dir # None THEN "directory" ELSE "init_all"
    /\ last' = [Event("ep_load") EXCEPT !.source = "pip", !.outcome = "load_error"]
    /\ UNCHANGED <<app, plugins, plugins_dir, disabled_plugins, inst,
                   sorted_plugins, idx, failed>>

\* _load_from_entry_points, one iteration: ep.load() raises
EntryPointLoadFails ==
    /\ pc = "entry_points"
    /\ last' = [Event("ep_load") EXCEPT !.source = "pip", !.outcome = "load_error"]
    /\ UNCHANGED <<app, plugins, plugins_dir, disabled_plugins, inst, pc,
                   sorted_plugins, idx, failed>>

\* _load_from_entry_points, one iteration: ep.load() gives a class
EntryPointRegister(cls, behaviour) ==
    /\ pc = "entry_points"
    /\ RegisterPluginClass(cls, "pip", behaviour)
    /\ UNCHANGED <<app, plugins_dir, disabled_plugins, pc, sorted_plugins, idx, failed>>

\* _load_from_entry_points ends (the declarations are exhausted, or the entry-point
\* mechanism raised); load_all goes on to _load_from_directory when a directory
\* is configured, and that one returns at once when the path does not exist
EntryPointsEnd(mechanismFailed, dirExists) ==
    /\ pc = "entry_points"
    /\ pc' = IF plugins_dir # None /\ dirExists THEN "directory" ELSE "init_all"
    /\ last' = [Event("entry_points_end") EXCEPT
                  !.outcome = IF mechanismFailed THEN "unavailable" ELSE "ok"]
    /\ UNCHANGED <<app, plugins, plugins_dir, disabled_plugins, inst,
                   sorted_plugins, idx, failed>>

\* _load_from_directory, one iteration that registers nothing: the entry is
\* filtered out, has no module, the module fails to load, or holds no plugin class
DirectorySkip(why) ==
    /\ pc = "directory"
    /\ last' = [Event("dir_load") EXCEPT !.source = "local", !.outcome = why]
    /\ UNCHANGED <<app, plugins, plugins_dir, disabled_plugins, inst, pc,
                   sorted_plugins, idx, failed>>

\* _load_from_directory, one iteration: the first plugin class of the module
DirectoryRegister(cls, behaviour) ==
    /\ pc = "directory"
    /\ RegisterPluginClass(cls, "local", behaviour)
    /\ UNCHANGED <<app, plugins_dir, disabled_plugins, pc, sorted_plugins, idx, failed>>

DirectoryEnd ==
    /\ pc = "directory"
    /\ pc' = "init_all"
    /\ last' = Event("directory_end")
    /\ UNCHANGED <<app, plugins, plugins_dir, disabled_plugins, inst,
                   sorted_plugins, idx, failed>>

\* Bug variant: _init_all_plugins runs its loop without an application too
InitAllBeginNoCheck ==
    /\ pc = "init_all"
    /\ pc' = "init_loop"
    /\ last' = Event("sorted")
    /\ sorted_plugins' = SortByDependencies
    /\ idx' = 0
    /\ failed' = {}
    /\ UNCHANGED <<app, plugins, plugins_dir, disabled_plugins, inst>>

\* _init_all_plugins up to its loop
InitAllBegin ==
    /\ pc = "init_all"
    /\ IF app = None
       THEN /\ pc' = "idle"
            /\ last' = Event("load_all")
            /\ UNCHANGED sorted_plugins
       ELSE /\ pc' = "init_loop"
            /\ last' = Event("sorted")
            /\ sorted_plugins' = SortByDependencies
    /\ idx' = 0
    /\ failed' = {}
    /\ UNCHANGED <<app, plugins, plugins_dir, disabled_plugins, inst>>

\* Bug variant: an init_app that returns sets the flag again
InitOneReenable(p, raises) ==
    [p EXCEPT !.app = app,
              !.enabled = ~raises]

\* the instance after one iteration of the loop of _init_all_plugins
InitOne(p, raises) ==
    [p EXCEPT !.app = app,
              !.enabled = IF raises THEN FALSE ELSE @]

InitPlugin(raises) ==
    /\ pc = "init_loop"
    /\ idx < Len(sorted_plugins)
    /\ LET plugin == sorted_plugins[idx + 1]
       IN  /\ inst' = [inst EXCEPT ![plugin] = InitOne(@, raises)]
           /\ failed' = IF raises THEN failed \cup {plugin} ELSE failed
           /\ last' = [Event("init_plugin") EXCEPT
                         !.name = NameOf(plugin),
                         !.again = inst[plugin].app # None,
                         !.outcome = IF raises THEN "init_error" ELSE "ok"]
    /\ idx' = idx + 1
    /\ UNCHANGED <<app, plugins, plugins_dir, disabled_plugins, pc, sorted_plugins>>

\* the loop is over: load_all returns
LoadAllEnd ==
    /\ pc = "init_loop"
    /\ idx = Len(sorted_plugins)
    /\ pc' = "idle"
    /\ last' = [Event("load_all") EXCEPT
                  !.called = Range(sorted_plugins), !.failed = failed]
    /\ sorted_plugins' = <<>>
    /\ idx' = 0
    /\ failed' = {}
    /\ UNCHANGED <<app, plugins, plugins_dir, disabled_plugins, inst>>

----------------------------------------------------------------------------
(* PluginLoader.healthcheck *)

\* results[k] = v on the dict results, kept as a set of <<key, value>>
ResultsSet(results, k, v) == {e \in results : e[1] # k} \cup {<<k, v>>}

\* Bug variant: the failure of a hook is recorded without its message
HealthEntryNoMessage(plugin, hook) ==
    IF hook = "ok" THEN OwnHealth(plugin) ELSE <<"error", "">>

\* one iteration: hook is "ok" when plugin.healthcheck() returns, else the message
\* of the exception it raises
HealthEntry(plugin, hook) ==
    IF hook = "ok" THEN OwnHealth(plugin) ELSE <<"error", hook>>

RECURSIVE healthLoop(_, _, _)
healthLoop(i, results, hooks) ==
    IF i > Len(plugins)
    THEN results
    ELSE healthLoop(i + 1,
                    ResultsSet(results, plugins[i].key,
                               HealthEntry(plugins[i].obj, hooks[plugins[i].key])),
                    hooks)

\* Bug variant: only the enabled plugins are asked
HealthcheckEnabledOnly(hooks) ==
    {e \in healthLoop(1, {}, hooks) : inst[DictGet(plugins, e[1])].enabled}

HealthcheckResults(hooks) == healthLoop(1, {}, hooks)

Healthcheck(hooks) ==
    /\ pc = "idle"
    /\ last' = [Event("healthcheck") EXCEPT
                  !.ret = "dict",
                  !.raised = {<<k, hooks[k]>> : k \in {n \in DOMAIN hooks : hooks[n] # "ok"}},
                  !.results = HealthcheckResults(hooks)]
    /\ UNCHANGED <<app, plugins, plugins_dir, disabled_plugins, inst, pc,
                   sorted_plugins, idx, failed>>

----------------------------------------------------------------------------
(* PluginLoader.unload_plugin *)

\* Bug variant: the flag is cleared before on_unload is called
UnloadEffectFlagFirst(name, raises) ==
    LET plugin == DictGet(plugins, name)
    IN  IF plugin # NoObj
        THEN IF raises
             THEN [plugins |-> plugins,
                   inst |-> [inst EXCEPT ![plugin].enabled = FALSE],
                   ret |-> "False"]
             ELSE [plugins |-> DictDel(plugins, name),
                   inst |-> [inst EXCEPT ![plugin].enabled = FALSE],
                   ret |-> "True"]
        ELSE [plugins |-> plugins, inst |-> inst, ret |-> "False"]

\* Bug variant: the entry is not deleted
UnloadEffectNoDel(name, raises) ==
    LET plugin == DictGet(plugins, name)
    IN  IF plugin # NoObj /\ ~raises
        THEN [plugins |-> plugins,
              inst |-> [inst EXCEPT ![plugin].enabled = FALSE],
              ret |-> "True"]
        ELSE [plugins |-> plugins, inst |-> inst, ret |-> "False"]

\* the registry, the instances and the return value after unload_plugin(name);
\* raises tells whether plugin.on_unload() raises
UnloadEffect(name, raises) ==
    LET plugin == DictGet(plugins, name)
    IN  IF plugin # NoObj
        THEN IF ~raises
             THEN [plugins |-> DictDel(plugins, name),
                   inst |-> [inst EXCEPT ![plugin].enabled = FALSE],
                   ret |-> "True"]
             ELSE [plugins |-> plugins, inst |-> inst, ret |-> "False"]
        ELSE [plugins |-> plugins, inst |-> inst, ret |-> "False"]

UnloadPlugin(name, raises) ==
    /\ pc = "idle"
    /\ LET eff == UnloadEffect(name, raises)
       IN  /\ plugins' = eff.plugins
           /\ inst' = eff.inst
           /\ last' = [Event("unload_plugin") EXCEPT
                         !.name = name, !.ret = eff.ret,
                         !.outcome = IF DictGet(plugins, name) = NoObj THEN "absent"
                                     ELSE IF raises THEN "on_unload_error" ELSE "ok"]
    /\ UNCHANGED <<app, plugins_dir, disabled_plugins, pc, sorted_plugins, idx, failed>>

----------------------------------------------------------------------------
(* Calls of the queries *)

GetAllPluginsCall ==
    /\ pc = "idle"
    /\ last' = [Event("get_all_plugins") EXCEPT !.ret = "list", !.list = GetAllPlugins]
    /\ UNCHANGED <<app, plugins, plugins_dir, disabled_plugins, inst, pc,
                   sorted_plugins, idx, failed>>

GetAllMenuItemsCall(raising) ==
    /\ pc = "idle"
    /\ LET res == GetAllMenuItems(raising)
       IN  last' = [Event("get_all_menu_items") EXCEPT
                      !.ret = res.ret, !.items = res.items,
                      !.outcome = IF res.ret = "raised" THEN "get_menu_items_error"
                                  ELSE "ok"]
    /\ UNCHANGED <<app, plugins, plugins_dir, disabled_plugins, inst, pc,
                   sorted_plugins, idx, failed>>

----------------------------------------------------------------------------
(* The loader *)

\* names a caller can pass, one of them never a plugin's
CallNames == Names \cup {"Z"}

DirSkips == {"filtered", "load_error", "no_class"}

Next ==
    \/ \E d \in DisableLists, dir \in {None, TheDir} : InitApp(d, dir)
    \/ LoadAllBegin
    \/ EntryPointLoadFails
    \/ \E cls \in PluginClasses, b \in Behaviours : EntryPointRegister(cls, b)
    \/ \E f \in BOOLEAN, e \in BOOLEAN : EntryPointsEnd(f, e)
    \/ \E why \in DirSkips : DirectorySkip(why)
    \/ \E cls \in PluginClasses, b \in Behaviours : DirectoryRegister(cls, b)
    \/ DirectoryEnd
    \/ InitAllBegin
    \/ \E r \in BOOLEAN : InitPlugin(r)
    \/ LoadAllEnd
    \/ \E hooks \in [DictKeys(plugins) -> {"ok"} \cup Messages] : Healthcheck(hooks)
    \/ \E name \in CallNames, r \in BOOLEAN : UnloadPlugin(name, r)
    \/ GetAllPluginsCall
    \/ \E raising \in {{}} \cup {{n} : n \in DictKeys(plugins)} :
          GetAllMenuItemsCall(raising)

Spec == Init /\ [][Next]_vars

----------------------------------------------------------------------------
(* The dependency orderer on arbitrary dependency graphs: the loader stands at  *)
(* the start of _init_all_plugins with an application and a registry holding    *)
(* any plugins named A, B, C in any insertion order, each with any dependency   *)
(* list over A, B, C and the name Z of no plugin.                               *)

\* length of a dependencies list
MaxDeps == 1

SortNames == {"A", "B", "C"}

DepLists == UNION {[1..n -> SortNames \cup {"Z"}] : n \in 0..MaxDeps}

SortClasses == {PluginClass(n, d) : n \in SortNames, d \in DepLists}

InitSort ==
    /\ app = TheApp
    /\ plugins_dir = None
    /\ disabled_plugins = {}
    /\ \E n \in 0..Cardinality(SortNames) :
         inst \in {s \in [1..n -> {NewPlugin(c) : c \in SortClasses}] :
                     \A i, j \in 1..n : s[i].cls.name = s[j].cls.name => i = j}
    /\ plugins = [i \in DOMAIN inst |-> [key |-> inst[i].cls.name, obj |-> i]]
    /\ pc = "init_all"
    /\ sorted_plugins = <<>>
    /\ idx = 0
    /\ failed = {}
    /\ last = [Event("entry_points_end") EXCEPT !.outcome = "ok"]

NextSort == InitAllBegin

SortSpec == InitSort /\ [][NextSort]_vars

----------------------------------------------------------------------------
(* Properties *)

Keys == DictKeys(plugins)
Registered == Range(DictValues(plugins))

\* position of x in the sequence s, 0 when absent
Pos(s, x) == IF x \in Range(s) THEN CHOOSE i \in DOMAIN s : s[i] = x ELSE 0

\* the registered names that name depends on, directly or through registered
\* plugins; name itself included
RECURSIVE DepClosure(_)
DepClosure(S) ==
    LET T == S \cup {d \in Keys : \E n \in S \cap Keys : d \in Range(DepsOf(DictGet(plugins, n)))}
    IN  IF T = S THEN S ELSE DepClosure(T)

DependsOn(x, y) == y \in DepClosure({x})

\* C1: a registration whose candidate carries a name that is already a key leaves
\* the registry and every instance (the original one and its enabled flag
\* included) as they were and does not call on_load on the candidate, whichever
\* source offers it.
C1_FirstRegistrationWins ==
    [][(last'.op = "register" /\ last'.name \in Keys)
         => /\ plugins' = plugins
            /\ inst' = inst
            /\ ~last'.on_load]_vars

\* C1 witness: the directory source offered a candidate whose name was taken by a
\* registered, already disabled instance, and it was dropped as a duplicate.
C1_Witness ==
    /\ last.op = "register"
    /\ last.outcome = "duplicate"
    /\ last.source = "local"
    /\ last.name \in Keys
    /\ ~inst[DictGet(plugins, last.name)].enabled

\* C2 as stated: in the sorted sequence every registered dependency of a registered
\* plugin stands strictly before that plugin.
C2_Original ==
    pc = "init_loop" =>
        \A p \in Registered : \A d \in Range(DepsOf(p)) \cap Keys :
            Pos(sorted_plugins, DictGet(plugins, d)) < Pos(sorted_plugins, p)

\* registry C, A, B where A has no dependency, B depends on A and C on B
C2_Scenario ==
    /\ Len(plugins) = Cardinality(SortNames)
    /\ [i \in DOMAIN plugins |-> plugins[i].key] = <<"C", "A", "B">>
    /\ DepsOf(DictGet(plugins, "A")) = <<>>
    /\ DepsOf(DictGet(plugins, "B")) = <<"A">>
    /\ DepsOf(DictGet(plugins, "C")) = <<"B">>

\* C2 amended: every registered dependency D of a registered plugin P stands
\* strictly before P in the sorted sequence unless D itself depends on P, directly
\* or through registered plugins (a self-dependency or a cycle); and A, B -> A,
\* C -> B registered in the order C, A, B are sorted as A, B, C.
C2_DependencyOrder ==
    pc = "init_loop" =>
        /\ \A p \in Registered : \A d \in Range(DepsOf(p)) \cap Keys :
               ~DependsOn(d, NameOf(p))
                   => /\ Pos(sorted_plugins, DictGet(plugins, d)) > 0
                      /\ Pos(sorted_plugins, DictGet(plugins, d)) < Pos(sorted_plugins, p)
        /\ C2_Scenario
               => [i \in DOMAIN sorted_plugins |-> NameOf(sorted_plugins[i])] = <<"A", "B", "C">>

\* C2 witness: the scenario has been sorted.
C2_Witness ==
    /\ pc = "init_loop"
    /\ C2_Scenario
    /\ [i \in DOMAIN sorted_plugins |-> NameOf(sorted_plugins[i])] = <<"A", "B", "C">>

\* C3: the sort ends and its result holds every registered instance exactly once
\* and nothing else, whatever the dependency graph.
C3_SortIsPermutation ==
    pc = "init_loop" =>
        /\ Len(sorted_plugins) = Len(plugins)
        /\ Range(sorted_plugins) = Registered
        /\ \A i, j \in DOMAIN sorted_plugins :
               sorted_plugins[i] = sorted_plugins[j] => i = j

\* C3 witness: a sorted registry of three plugins holding a cycle (B and C depend
\* on each other) and a dependency on the name of no plugin.
C3_Witness ==
    /\ pc = "init_loop"
    /\ Len(sorted_plugins) = Cardinality(SortNames)
    /\ DepsOf(DictGet(plugins, "A")) = <<"Z">>
    /\ DepsOf(DictGet(plugins, "B")) = <<"C">>
    /\ DepsOf(DictGet(plugins, "C")) = <<"B">>

\* C4 as stated: after any load_all no name of the disable-list is a key of the
\* registry: get_plugin gives None for it and get_all_plugins holds no plugin of
\* that name.
C4_Original ==
    (pc = "idle" /\ last.op = "load_all") =>
        \A n \in disabled_plugins :
            /\ n \notin Keys
            /\ GetPlugin(n) = NoObj
            /\ \A i \in DOMAIN GetAllPlugins : NameOf(GetAllPlugins[i]) # n

\* C4 amended: no step of load_all adds a name of the disable-list to the
\* registry, whichever source offers the candidate; such a name is a key after
\* load_all only if it was one when load_all was called.
C4_DisabledNeverRegistered ==
    [][pc # "idle" => \A n \in disabled_plugins : n \in DictKeys(plugins') => n \in Keys]_vars

\* C4 witness: the directory source offered a candidate whose name is in the
\* disable-list while the registry holds other plugins, and it was dropped.
C4_Witness ==
    /\ last.op = "register"
    /\ last.outcome = "disabled"
    /\ last.source = "local"
    /\ last.name \in disabled_plugins
    /\ last.name \notin Keys
    /\ plugins # <<>>

\* C5 as stated: when load_all's initialization pass is over, every plugin whose
\* init_app raised in it is disabled and still registered, and every other
\* registered plugin received init_app and, unless its own call raised, is enabled.
C5_Original ==
    (pc = "idle" /\ last.op = "load_all" /\ app # None) =>
        \A a \in last.failed :
            /\ ~inst[a].enabled
            /\ a \in Registered
            /\ \A b \in Registered \ {a} :
                   /\ b \in last.called
                   /\ b \notin last.failed => inst[b].enabled

\* C6: unload_plugin of a name that is no key returns False and changes nothing;
\* of a key whose on_unload returns, it returns True, clears that instance's
\* enabled flag and deletes the key, leaving the other entries alone; a second
\* unload_plugin of that name right after it returns False and changes nothing.
C6_Unload ==
    [][(pc = "idle" /\ last'.op = "unload_plugin") =>
         LET n == last'.name
             p == DictGet(plugins, n)
         IN  /\ p = NoObj =>
                   /\ last'.ret = "False"
                   /\ plugins' = plugins
                   /\ inst' = inst
             /\ (p # NoObj /\ last'.outcome = "ok") =>
                   /\ last'.ret = "True"
                   /\ ~inst'[p].enabled
                   /\ n \notin DictKeys(plugins')
                   /\ plugins' = SelectSeq(plugins, LAMBDA e : e.obj # p)
                   /\ \A q \in DOMAIN inst : q # p => inst'[q] = inst[q]
             /\ (last.op = "unload_plugin" /\ last.ret = "True" /\ last.name = n) =>
                   /\ last'.ret = "False"
                   /\ plugins' = plugins
                   /\ inst' = inst]_vars

\* C6 witness: an enabled plugin was unloaded with success and another plugin is
\* still registered.
C6_Witness ==
    /\ last.op = "unload_plugin"
    /\ last.ret = "True"
    /\ last.name \notin Keys
    /\ plugins # <<>>
    /\ \E p \in DOMAIN inst : NameOf(p) = last.name /\ p \notin Registered /\ ~inst[p].enabled

\* C7: when on_unload raises, unload_plugin returns False, the plugin stays in the
\* registry under its name and its enabled flag keeps its value.
C7_FailedUnloadKeepsState ==
    [][(pc = "idle" /\ last'.op = "unload_plugin" /\ last'.outcome = "on_unload_error") =>
         /\ last'.ret = "False"
         /\ plugins' = plugins
         /\ inst' = inst
         /\ last'.name \in DictKeys(plugins')]_vars

\* C7 witness: on_unload of a registered, enabled plugin raised.
C7_Witness ==
    /\ last.op = "unload_plugin"
    /\ last.outcome = "on_unload_error"
    /\ last.ret = "False"
    /\ last.name \in Keys
    /\ inst[DictGet(plugins, last.name)].enabled

\* C8: healthcheck returns a dict with exactly one entry per registered name,
\* enabled or not: the plugin's own payload when its hook returns, the error
\* payload with the exception's message when it raises; and it changes neither
\* the registry nor any instance.
C8_Healthcheck ==
    [][(pc = "idle" /\ last'.op = "healthcheck") =>
         /\ last'.ret = "dict"
         /\ plugins' = plugins
         /\ inst' = inst
         /\ {e[1] : e \in last'.results} = Keys
         /\ Cardinality(last'.results) = Cardinality(Keys)
         /\ \A k \in Keys :
               IF \E m \in Messages : <<k, m>> \in last'.raised
               THEN \E m \in Messages :
                       /\ <<k, m>> \in last'.raised
                       /\ <<k, <<"error", m>>>> \in last'.results
               ELSE <<k, OwnHealth(DictGet(plugins, k))>> \in last'.results]_vars

\* C8 witness: healthcheck ran on a registry with a disabled plugin; one hook
\* raised and one returned.
C8_Witness ==
    /\ last.op = "healthcheck"
    /\ \E p \in Registered : ~inst[p].enabled
    /\ \E e \in last.results : e[2][1] = "error"
    /\ \E e \in last.results : e[2][1] = "ok"

\* C9 as stated: no init_app call is ever made on an instance that has received
\* init_app before.
C9_Original == last.op = "init_plugin" => ~last.again

\* C10 as stated: the empty string is never a key of the registry.
C10_Original == "" \notin Keys

\* the operations of the loader a caller invokes
PublicOps == {"load_all", "healthcheck", "unload_plugin", "get_all_plugins",
              "get_all_menu_items"}

\* C11 as stated: load_all, healthcheck, unload_plugin, get_all_plugins and
\* get_all_menu_items return normally whatever the plugins' hooks do.
C11_Original == last.op \in PublicOps => last.ret # "raised"

\* C12: on_load is called on a candidate before it is stored, when its name is no
\* key yet, and only a candidate whose on_load returned is stored; the stored
\* instance has no application yet, even when the loader has one; the application
\* of an instance is assigned by the initialization pass alone, to registered
\* instances, so init_app comes after on_load has returned.
C12_HookOrder ==
    [][/\ (last'.op = "register" /\ last'.on_load) => last'.name \notin Keys
       /\ (last'.op = "register" /\ plugins' # plugins) =>
             /\ last'.on_load
             /\ last'.outcome = "registered"
             /\ Len(inst') = Len(inst) + 1
             /\ DictGet(plugins', last'.name) = Len(inst')
             /\ inst'[Len(inst')].app = None
       /\ \A p \in DOMAIN inst :
             inst'[p].app # inst[p].app =>
                 /\ last'.op = "init_plugin"
                 /\ pc = "init_loop"
                 /\ p \in Registered
       /\ last'.op = "init_plugin" => sorted_plugins[idx'] \in Registered]_vars

\* C12 witness: a candidate was stored after its on_load by a loader that has an
\* application, and the instance has none yet.
C12_Witness ==
    /\ last.op = "register"
    /\ last.outcome = "registered"
    /\ last.on_load
    /\ app = TheApp
    /\ inst[DictGet(plugins, last.name)].app = None

\* C13: a registration whose constructor or on_load raised returns normally and
\* leaves the registry and every instance, enabled flags included, as they were;
\* the candidate whose on_load raised is not a key of the registry afterwards.
C13_FailedRegistrationNoEffect ==
    [][(last'.op = "register" /\ last'.outcome \in {"ctor_error", "on_load_error"}) =>
          /\ last'.ret # "raised"
          /\ plugins' = plugins
          /\ inst' = inst
          /\ last'.outcome = "on_load_error" =>
                /\ last'.on_load
                /\ last'.name \notin DictKeys(plugins')]_vars

\* C13 witness: on_load of a candidate raised while another plugin was registered.
C13_Witness ==
    /\ last.op = "register"
    /\ last.outcome = "on_load_error"
    /\ last.on_load
    /\ plugins # <<>>
    /\ last.name \notin Keys

\* C14: get_all_plugins returns the registered instances whose enabled flag is
\* true, each once, in the order of the registry, and changes neither the registry
\* nor an instance; a registered instance that is disabled (its init_app failed)
\* is not in the list and is still what get_plugin returns for its name.
C14_GetAllPlugins ==
    [][last'.op = "get_all_plugins" =>
          LET list == last'.list
              values == DictValues(plugins)
          IN  /\ last'.ret = "list"
              /\ Range(list) = {p \in Registered : inst[p].enabled}
              /\ \A i, j \in DOMAIN list :
                    i < j => Pos(values, list[i]) < Pos(values, list[j])
              /\ plugins' = plugins
              /\ inst' = inst
              /\ \A p \in Registered :
                    ~inst[p].enabled =>
                        /\ p \notin Range(list)
                        /\ GetPlugin(NameOf(p)) = p]_vars

\* C14 witness: get_all_plugins returned the one enabled plugin of a registry
\* that also holds a plugin whose init_app failed.
C14_Witness ==
    /\ last.op = "get_all_plugins"
    /\ Len(last.list) = 1
    /\ \E p \in Registered :
          /\ ~inst[p].enabled
          /\ inst[p].app = TheApp
          /\ GetPlugin(NameOf(p)) = p
          /\ p \notin Range(last.list)

\* the menu entries of the enabled instances of s, in the order of s
RECURSIVE MenuConcat(_)
MenuConcat(s) ==
    IF s = <<>> THEN <<>>
    ELSE (IF inst[Head(s)].enabled THEN ClassMenu(inst[Head(s)].cls) ELSE <<>>)
         \o MenuConcat(Tail(s))

\* C15: the list get_all_menu_items returns is the concatenation, in registry
\* order, of the menu entries of the registered instances whose enabled flag is
\* true, equal entries kept, nothing from disabled or unregistered instances; the
\* call changes nothing, and of two calls in a row that return, the second returns
\* the list of the first.
C15_MenuItems ==
    [][(last'.op = "get_all_menu_items" /\ last'.ret = "list") =>
          /\ last'.items = MenuConcat(DictValues(plugins))
          /\ plugins' = plugins
          /\ inst' = inst
          /\ (last.op = "get_all_menu_items" /\ last.ret = "list") =>
                last'.items = last.items]_vars

\* C15 witness: two enabled plugins that both contribute the entry "home"; the
\* list holds it twice, the first plugin's entries before the second's.
C15_Witness ==
    /\ last.op = "get_all_menu_items"
    /\ last.ret = "list"
    /\ last.items = <<"home", "home", "b">>
    /\ \A p \in Registered : inst[p].enabled

\* C16: init_app, which replaces the disable-list, changes neither the registry
\* nor an instance; a registered name that is in the disable-list leaves the
\* registry by a successful unload_plugin of that name alone, and its enabled flag
\* changes by an init_app failure or that unload alone; while registered it is in
\* the dict of healthcheck, in the list of get_all_plugins when enabled, and in
\* the initialization order of load_all.
C16_DisableListAtRegistrationOnly ==
    [][/\ last'.op = "init_app" => (plugins' = plugins /\ inst' = inst)
       /\ \A n \in Keys \cap disabled_plugins :
             LET p == DictGet(plugins, n)
             IN  /\ n \notin DictKeys(plugins') =>
                       /\ last'.op = "unload_plugin"
                       /\ last'.name = n
                       /\ last'.ret = "True"
                 /\ inst'[p].enabled # inst[p].enabled =>
                       \/ last'.op = "init_plugin" /\ last'.outcome = "init_error"
                       \/ last'.op = "unload_plugin" /\ last'.name = n
                 /\ last'.op = "healthcheck" => \E e \in last'.results : e[1] = n
                 /\ (last'.op = "get_all_plugins" /\ inst[p].enabled) =>
                       p \in Range(last'.list)
                 /\ last'.op = "sorted" => p \in Range(sorted_plugins')]_vars

\* C16 witness: load_all ended having called init_app of a registered, enabled
\* plugin whose name the disable-list holds.
C16_Witness ==
    /\ last.op = "load_all"
    /\ \E n \in Keys \cap disabled_plugins :
          /\ DictGet(plugins, n) \in last.called
          /\ inst[DictGet(plugins, n)].enabled

\* C17: after a declaration failed to resolve the loader is still in the loop
\* over the declarations, where a further declaration can be offered for
\* registration or fail; after a directory was skipped or failed to load it is
\* still in the loop over the directories, where a further directory can be
\* offered; when _load_from_entry_points ends, the entry-point mechanism having
\* failed or not, load_all goes on with the directories, or with the
\* initialization pass when there is no directory to read, and the end of the
\* directories leads to the initialization pass.
C17_DiscoveryIsolation ==
    /\ last.op = "ep_load" =>
          /\ pc = "entry_points"
          /\ ENABLED (\E cls \in PluginClasses, b \in Behaviours : EntryPointRegister(cls, b))
          /\ ENABLED EntryPointLoadFails
    /\ last.op = "dir_load" =>
          /\ pc = "directory"
          /\ ENABLED (\E cls \in PluginClasses, b \in Behaviours : DirectoryRegister(cls, b))
          /\ ENABLED (\E why \in DirSkips : DirectorySkip(why))
    /\ last.op = "entry_points_end" =>
          /\ pc \in {"directory", "init_all"}
          /\ plugins_dir = None => pc = "init_all"
          /\ pc = "directory" =>
                /\ ENABLED (\E cls \in PluginClasses, b \in Behaviours :
                               DirectoryRegister(cls, b))
                /\ ENABLED DirectoryEnd
          /\ pc = "init_all" => ENABLED InitAllBegin
    /\ last.op = "directory_end" => (pc = "init_all" /\ ENABLED InitAllBegin)

\* C17 witness: a declaration has just failed to resolve, after another one was
\* registered in the same loop, and the next one can be registered.
C17_Witness ==
    /\ last.op = "ep_load"
    /\ last.outcome = "load_error"
    /\ pc = "entry_points"
    /\ Len(plugins) = 1
    /\ ENABLED (\E cls \in PluginClasses : EntryPointRegister(cls, "ok") /\ plugins' # plugins)

\* C18: an instance is created with its enabled flag true; the flag becomes false
\* by a failed init_app or a successful unload_plugin alone; and a flag that is
\* false stays false in every step, the step in which a later load_all calls
\* init_app on the instance again and the call returns included.
C18_EnabledMonotone ==
    [][/\ DOMAIN inst \subseteq DOMAIN inst'
       /\ \A p \in DOMAIN inst' \ DOMAIN inst : inst'[p].enabled
       /\ \A p \in DOMAIN inst :
             /\ ~inst[p].enabled => ~inst'[p].enabled
             /\ (inst[p].enabled /\ ~inst'[p].enabled) =>
                   \/ last'.op = "init_plugin" /\ last'.outcome = "init_error"
                   \/ last'.op = "unload_plugin" /\ last'.ret = "True"]_vars

\* C18 witness: init_app was called again on a registered plugin that an earlier
\* init_app failure had disabled; it returned, and the plugin is still disabled.
C18_Witness ==
    /\ last.op = "init_plugin"
    /\ last.outcome = "ok"
    /\ last.again
    /\ last.name \in Keys
    /\ ~inst[DictGet(plugins, last.name)].enabled

\* C19: while the loader has no application its disable-list is empty, so no
\* candidate is refused as disabled, and load_all registers plugins; it never
\* enters the loop of the initialization pass and calls init_app on no plugin:
\* every registered plugin is enabled and no instance has an application.
C19_NoAppNoInit ==
    app = None =>
        /\ disabled_plugins = {}
        /\ last.op = "register" => last.outcome # "disabled"
        /\ pc # "init_loop"
        /\ last.op \notin {"sorted", "init_plugin"}
        /\ last.op = "load_all" => (last.called = {} /\ last.failed = {})
        /\ \A p \in Registered : inst[p].enabled
        /\ \A p \in DOMAIN inst : inst[p].app = None

\* C19 witness: load_all of a loader without application has returned with two
\* plugins registered.
C19_Witness ==
    /\ app = None
    /\ last.op = "load_all"
    /\ Len(plugins) = 2
    /\ \A p \in Registered : inst[p].enabled /\ inst[p].app = None

\* C20: a candidate whose name is no key of the registry and not in the
\* disable-list, and whose constructor and on_load return, is registered, whether
\* or not an instance of that name was unloaded before; the instance stored is a
\* new one with its enabled flag true; every instance outside the registry is
\* disabled and stays outside, the earlier instances of that name among them.
C20_UnloadNotPermanent ==
    [][/\ ( /\ last'.op = "register"
            /\ last'.name \notin Keys
            /\ last'.name \notin disabled_plugins
            /\ last'.outcome \notin {"ctor_error", "on_load_error"} ) =>
             LET new == DictGet(plugins', last'.name)
             IN  /\ last'.outcome = "registered"
                 /\ new \in DOMAIN inst' \ DOMAIN inst
                 /\ inst'[new].enabled
                 /\ \A q \in DOMAIN inst :
                       NameOf(q) = last'.name =>
                           /\ q # new
                           /\ inst'[q] = inst[q]
                           /\ ~inst'[q].enabled
                           /\ q \notin Range(DictValues(plugins'))
       /\ \A q \in DOMAIN inst \ Registered :
             /\ ~inst[q].enabled
             /\ ~inst'[q].enabled
             /\ q \notin Range(DictValues(plugins'))]_vars

\* C20 witness: a plugin was unloaded and a candidate of the same name has just
\* been registered: the new instance is enabled, the unloaded one disabled and
\* outside the registry.
C20_Witness ==
    /\ last.op = "register"
    /\ last.outcome = "registered"
    /\ inst[DictGet(plugins, last.name)].enabled
    /\ \E q \in DOMAIN inst :
          /\ q # DictGet(plugins, last.name)
          /\ NameOf(q) = last.name
          /\ ~inst[q].enabled
          /\ q \notin Registered

====
